---- MODULE Spec2Model ----
(***************************************************************************)
(* PyDDA C++ exporter (PyDDA/pydda/cpp_exporter.py, to_cpp): the pipeline  *)
(* classification -> dependency graph -> topological sort -> emission of   *)
(* the derivative function f, and one evaluation of the emitted f.         *)
(*                                                                         *)
(* pydda/ast.py (State, Symbol, topological_sort) is imported by the       *)
(* exporter but is not part of the sources at hand; the operators that     *)
(* stand for it follow the written specification (sections 4.1, 4.3, 4.4). *)
(***************************************************************************)
EXTENDS Integers, Sequences, FiniteSets, TLC

(***************************************************************************)
(* Bounds of the explored inputs.                                          *)
(***************************************************************************)
MaxArgs == 2
MaxLead == 1
MaxEdges == 3

\* Variable names of the explored Programs, and the nodes of the explored
\* edge lists.  NameOrder lists every name in the order of Python's sorted().
VarNames == {"a", "b", "c"}
Nodes == {"a", "b", "c", "d"}
NameOrder == <<"a", "b", "c", "d", "dt", "y", "y0", "z">>

(***************************************************************************)
(* Expressions: dda.Symbol(head, *tail).  A numeric literal is a bare      *)
(* Python number (kind "num", its text in head); a variable reference is a *)
(* Symbol with an empty tail.                                              *)
(***************************************************************************)
Symbol(h, t) == [kind |-> "sym", head |-> h, tail |-> t]
Num(v) == [kind |-> "num", head |-> v, tail |-> <<>>]
Var(n) == Symbol(n, <<>>)
Const(v) == Symbol("const", <<Num(v)>>)

is_variable(x) == x.kind = "sym" /\ Len(x.tail) = 0

\* Sequences over S of length lo..hi
SeqsOf(S, lo, hi) == UNION {[1..k -> S] : k \in lo..hi}

Range(s) == {s[i] : i \in 1..Len(s)}

RECURSIVE SelectNames(_, _)
SelectNames(order, S) ==
    IF order = <<>> THEN <<>>
    ELSE IF Head(order) \in S THEN <<Head(order)>> \o SelectNames(Tail(order), S)
         ELSE SelectNames(Tail(order), S)

\* sorted(S) for a set or list of names
sorted(S) == SelectNames(NameOrder, S)

(***************************************************************************)
(* The Program ("state" in to_cpp): an ordered mapping name -> Symbol,     *)
(* here the sequence of its items in iteration order.                      *)
(***************************************************************************)
Keys(st) == [i \in 1..Len(st) |-> st[i].name]
HasKey(st, v) == \E i \in 1..Len(st) : st[i].name = v
Lookup(st, v) == st[CHOOSE i \in 1..Len(st) : st[i].name = v].def

VARIABLES
    program,            \* the Program handed to to_cpp
    state,              \* the Program, rewritten by the passes
    pc,                 \* position in to_cpp / in the generated program
    error,              \* "" or the exception that ended to_cpp
    evolved_variables,  \* sorted list of the names whose head is int
    timesteps,          \* name -> step expression
    initial_data,       \* name -> initial value expression
    all_vars,           \* sorted list of every name defined or referenced
    aux_variables,      \* all_vars without evolved_variables, same order
    aux_dep_edges,      \* list of <<a, b>>: auxiliary a depends on auxiliary b
    sorted_aux_vars,    \* topological_sort: the ordered sequence
    cyclic_aux_vars,    \* topological_sort: the cyclic names, as reported
    unneeded_auxers,    \* auxiliaries in neither of the two
    equations,          \* body of the emitted f, one entry per line
    output,             \* the returned C++ code (its parts), <<>> while none
    f_trace,            \* one evaluation of f: the assignments executed
    prev_output,        \* what an earlier run of to_cpp returned, <<>> if none
    rk_order,           \* generated program: the compiled-in scheme selector
    max_iterations,     \* generated program: the compiled-in step count
    modulo_write,       \* generated program: the compiled-in report interval
    iter,               \* simulate_dda: the loop counter
    sim_state,          \* simulate_dda: _state, one value per state variable
    dt,                 \* simulate_dda: dt, one step size per state variable
    sim_aux,              \* simulate_dda: _aux as the last call of f left it
    f_coef,             \* the emitted f: coefficients of the derivatives
    f_calls,            \* the calls of f in the latest iteration, in order
    stdout,             \* what the generated program has written
    unidirectional,     \* HyCon.unidirectional
    fh,                 \* HyCon.fh: what was written to it and read from it
    requests,           \* the HyConRequest objects created so far
    returned            \* what the latest call on a HyConRequest returned

vars == <<program, state, pc, error, evolved_variables, timesteps, initial_data,
          all_vars, aux_variables, aux_dep_edges, sorted_aux_vars,
          cyclic_aux_vars, unneeded_auxers, equations, output, f_trace,
          prev_output, rk_order, max_iterations, modulo_write, iter, sim_state,
          dt, sim_aux, f_coef, f_calls, stdout, unidirectional, fh, requests,
          returned>>

\* the variables of the generated program and of the HyCon connection
simvars == <<rk_order, max_iterations, modulo_write, iter, sim_state, dt, sim_aux,
             f_coef, f_calls, stdout>>
hcvars == <<unidirectional, fh, requests, returned>>

(***************************************************************************)
(* Explored Programs.  After name_computing_elements() every definition is *)
(* a computing element over variables and literals; const(...) wrappers    *)
(* and one nested product remain as arguments.  The order of the edges a   *)
(* definition contributes is explored by EdgeLists below.                  *)
(***************************************************************************)
VarArgs == {Var(n) : n \in VarNames}

\* argument lists naming lo..hi different variables, in name order
VarTails(lo, hi) ==
    {[i \in 1..Len(sorted(T)) |-> Var(sorted(T)[i])] :
        T \in {U \in SUBSET VarNames : Cardinality(U) \in lo..hi}}

Leads == VarTails(1, MaxLead) \cup {<<Symbol("mult", <<Var("a"), Var("a")>>)>>}
Trailers == { <<Const("0.5"), Num("1")>>, <<Var("c"), Const("1")>> }
IntTails == {l \o t : l \in Leads, t \in Trailers}
ShortIntTails == {<<>>, <<Var("a")>>} \cup Trailers
IntDefs == {Symbol("int", t) : t \in IntTails \cup ShortIntTails}
AuxDefs == {Symbol("add", t) : t \in VarTails(1, MaxArgs)} \cup {Const("5")}
Defs == IntDefs \cup AuxDefs

InjectiveNameSeqs ==
    {ns \in SeqsOf(VarNames, 0, Cardinality(VarNames)) :
        \A i, j \in 1..Len(ns) : i # j => ns[i] # ns[j]}
\* the Program holding definitions ds under the names ns, in that order
Program(ns, ds) == [i \in 1..Len(ns) |-> [name |-> ns[i], def |-> ds[i]]]

(***************************************************************************)
(* Classification: to_cpp lines 132-155.                                   *)
(***************************************************************************)
EvolvedVariables(st) ==
    sorted({st[i].name : i \in {j \in 1..Len(st) : st[j].def.head = "int"}})

InList(v, lst) == v \in Range(lst)

struct_for(ev, name) == IF InList(name, ev) THEN "_state" ELSE "_aux"

\* Symbol(f"{struct_for(el.head)}.{el.head}"): the reference, tagged with
\* the record that holds the variable
prefix_rhs(ev, el) ==
    IF is_variable(el)
    THEN [kind |-> struct_for(ev, el.head), head |-> el.head, tail |-> <<>>]
    ELSE el

remove_const(x) ==
    IF x.kind = "sym" /\ x.head = "const" THEN x.tail[1] ELSE x

NoTreat == [raised |-> FALSE, isint |-> FALSE, def |-> Num(""),
            step |-> Num(""), ic |-> Num("")]

\* the step and the initial value stored as written, const(...) kept
map_and_treat_integrals_keeping_const(st, ev, var) ==
    LET tail == Lookup(st, var).tail IN
    IF ~InList(var, ev) THEN [NoTreat EXCEPT !.def = Lookup(st, var)]
    ELSE IF ~(Len(tail) >= 3) THEN [NoTreat EXCEPT !.raised = TRUE]
    ELSE [raised |-> FALSE, isint |-> TRUE,
          def |-> Symbol("Int", SubSeq(tail, 1, Len(tail) - 2)),
          step |-> tail[Len(tail) - 1],
          ic |-> tail[Len(tail)]]

\* the arity test accepting int(dt, ic)
map_and_treat_integrals_two_args(st, ev, var) ==
    LET tail == Lookup(st, var).tail IN
    IF ~InList(var, ev) THEN [NoTreat EXCEPT !.def = Lookup(st, var)]
    ELSE IF ~(Len(tail) >= 2) THEN [NoTreat EXCEPT !.raised = TRUE]
    ELSE [raised |-> FALSE, isint |-> TRUE,
          def |-> Symbol("Int", SubSeq(tail, 1, Len(tail) - 2)),
          step |-> remove_const(tail[Len(tail) - 1]),
          ic |-> remove_const(tail[Len(tail)])]

\* One call of map_and_treat_integrals(var): what it returns, what it stores
\* in timesteps / initial_data, or that it raised ValueError.
map_and_treat_integrals(st, ev, var) ==
    LET tail == Lookup(st, var).tail IN
    IF ~InList(var, ev) THEN [NoTreat EXCEPT !.def = Lookup(st, var)]
    ELSE IF ~(Len(tail) >= 3) THEN [NoTreat EXCEPT !.raised = TRUE]
    ELSE [raised |-> FALSE, isint |-> TRUE,
          def |-> Symbol("Int", SubSeq(tail, 1, Len(tail) - 2)),
          step |-> remove_const(tail[Len(tail) - 1]),
          ic |-> remove_const(tail[Len(tail)])]

\* State({ var: map_and_treat_integrals(var) for var in state }): the
\* comprehension visits the items in order and stops at the first raise.
RECURSIVE TreatAll(_, _, _, _)
TreatAll(st, ev, i, acc) ==
    IF i > Len(st) THEN acc
    ELSE LET var == st[i].name
             r == map_and_treat_integrals(st, ev, var)
         IN IF r.raised THEN [acc EXCEPT !.error = "ValueError"]
            ELSE TreatAll(st, ev, i + 1,
                   [acc EXCEPT
                      !.state = Append(@, [name |-> var, def |-> r.def]),
                      !.timesteps = IF r.isint THEN (var :> r.step) @@ @ ELSE @,
                      !.initial_data = IF r.isint THEN (var :> r.ic) @@ @ ELSE @])

NoMap == [v \in {} |-> Num("")]

Classify ==
    /\ pc = "start"
    /\ LET ev == EvolvedVariables(state)
           r == TreatAll(state, ev, 1,
                  [state |-> <<>>, timesteps |-> NoMap,
                   initial_data |-> NoMap, error |-> ""])
       IN /\ evolved_variables' = ev
          /\ timesteps' = r.timesteps
          /\ initial_data' = r.initial_data
          /\ IF r.error # ""
             THEN /\ pc' = "failed"
                  /\ error' = r.error
                  /\ UNCHANGED state
             ELSE /\ pc' = "classified"
                  /\ state' = r.state
                  /\ UNCHANGED error
    /\ UNCHANGED <<program, all_vars, aux_variables, aux_dep_edges,
                   sorted_aux_vars, cyclic_aux_vars, unneeded_auxers,
                   equations, output, f_trace>>
    /\ UNCHANGED <<prev_output, simvars, hcvars>>

(***************************************************************************)
(* Dependency graph: to_cpp lines 170-176.                                 *)
(***************************************************************************)
\* Symbol.all_variables(): the variable references inside an expression,
\* in traversal order
RECURSIVE all_variables(_), VarsOfTail(_, _)
all_variables(x) ==
    IF x.kind # "sym" THEN <<>>
    ELSE IF Len(x.tail) = 0 THEN <<x.head>>
    ELSE VarsOfTail(x.tail, 1)
VarsOfTail(t, i) ==
    IF i > Len(t) THEN <<>> ELSE all_variables(t[i]) \o VarsOfTail(t, i + 1)

\* sorted(set.union(*[set(map(str, state[k].all_variables())) for k in state], state))
AllVars(st) ==
    sorted(UNION {Range(all_variables(st[i].def)) : i \in 1..Len(st)}
           \cup Range(Keys(st)))

\* every name taken as auxiliary
AuxVariablesUnfiltered(av, ev) == av

\* [ v for v in all_vars if not v in evolved_variables ]
RECURSIVE AuxVariables(_, _)
AuxVariables(av, ev) ==
    IF av = <<>> THEN <<>>
    ELSE IF ~InList(Head(av), ev) THEN <<Head(av)>> \o AuxVariables(Tail(av), ev)
         ELSE AuxVariables(Tail(av), ev)

\* State.dependency_graph(): every <<dependent, dependency>>, the
\* definitions in iteration order
RECURSIVE dependency_graph(_, _)
dependency_graph(st, i) ==
    IF i > Len(st) THEN <<>>
    ELSE LET deps == all_variables(st[i].def)
         IN [k \in 1..Len(deps) |-> <<st[i].name, deps[k]>>]
            \o dependency_graph(st, i + 1)

\* the sorter fed with dep_edge_list itself
AuxDepEdgesUnfiltered(edges, aux) == edges

\* [ (a,b) for a,b in dep_edge_list if a in aux_variables and b in aux_variables ]
RECURSIVE AuxDepEdges(_, _)
AuxDepEdges(edges, aux) ==
    IF edges = <<>> THEN <<>>
    ELSE IF InList(Head(edges)[1], aux) /\ InList(Head(edges)[2], aux)
         THEN <<Head(edges)>> \o AuxDepEdges(Tail(edges), aux)
         ELSE AuxDepEdges(Tail(edges), aux)

BuildGraph ==
    /\ pc = "classified"
    /\ IF Len(state) = 0
       THEN \* set.union(state) with the State as its only argument
            /\ pc' = "failed"
            /\ error' = "TypeError"
            /\ UNCHANGED <<all_vars, aux_variables, aux_dep_edges>>
       ELSE /\ pc' = "graphed"
            /\ all_vars' = AllVars(state)
            /\ aux_variables' = AuxVariables(AllVars(state), evolved_variables)
            /\ aux_dep_edges' =
                 AuxDepEdges(dependency_graph(state, 1),
                             AuxVariables(AllVars(state), evolved_variables))
            /\ UNCHANGED error
    /\ UNCHANGED <<program, state, evolved_variables, timesteps, initial_data,
                   sorted_aux_vars, cyclic_aux_vars, unneeded_auxers,
                   equations, output, f_trace>>
    /\ UNCHANGED <<prev_output, simvars, hcvars>>

(***************************************************************************)
(* Topological sorter (specification 4.4): depth-first traversal with a    *)
(* "visiting" and a "visited" mark per node.                               *)
(***************************************************************************)
RECURSIVE AppendNew(_, _)
AppendNew(lst, more) ==
    IF more = <<>> THEN lst
    ELSE AppendNew(IF InList(Head(more), lst) THEN lst ELSE Append(lst, Head(more)),
                   Tail(more))

\* the nodes in the order the edge list first names them
RECURSIVE NodesOf(_)
NodesOf(edges) ==
    IF edges = <<>> THEN <<>>
    ELSE AppendNew(<<>>, <<Head(edges)[1], Head(edges)[2]>> \o NodesOf(Tail(edges)))

RECURSIVE DepsOf(_, _)
DepsOf(edges, n) ==
    IF edges = <<>> THEN <<>>
    ELSE IF Head(edges)[1] = n THEN <<Head(edges)[2]>> \o DepsOf(Tail(edges), n)
         ELSE DepsOf(Tail(edges), n)

\* only the node on top of the stack collected
ReenteredTopOnly(S) ==
    [S EXCEPT !.cyclic = IF S.stack = <<>> THEN @
                         ELSE AppendNew(@, <<S.stack[Len(S.stack)]>>),
              !.ok = FALSE]

\* A node reached while marked "visiting": every node on the active
\* recursion stack goes into the cycle set, the branch is abandoned.
Reentered(S) == [S EXCEPT !.cyclic = AppendNew(@, S.stack), !.ok = FALSE]

\* the node emitted in front of its dependencies
EmittedInFront(S, n) ==
    [S EXCEPT !.visiting = @ \ {n}, !.visited = @ \cup {n},
              !.ordered = <<n>> \o @,
              !.stack = SubSeq(@, 1, Len(@) - 1)]

\* A node all of whose dependencies are emitted is emitted itself.
Emitted(S, n) ==
    [S EXCEPT !.visiting = @ \ {n}, !.visited = @ \cup {n},
              !.ordered = Append(@, n),
              !.stack = SubSeq(@, 1, Len(@) - 1)]

RECURSIVE Visit(_, _, _), VisitDeps(_, _, _, _)
Visit(edges, n, S) ==
    IF n \in S.visited THEN S
    ELSE IF n \in S.visiting THEN Reentered(S)
    ELSE LET S1 == [S EXCEPT !.visiting = @ \cup {n}, !.stack = Append(@, n)]
             S2 == VisitDeps(edges, DepsOf(edges, n), 1, S1)
         IN IF S2.ok THEN Emitted(S2, n) ELSE S2
VisitDeps(edges, ds, i, S) ==
    IF i > Len(ds) \/ ~S.ok THEN S
    ELSE VisitDeps(edges, ds, i + 1, Visit(edges, ds[i], S))

\* the whole sort aborted by the first cycle
RECURSIVE VisitRootsUntilCycle(_, _, _, _)
VisitRootsUntilCycle(edges, roots, i, S) ==
    IF i > Len(roots) \/ S.cyclic # <<>> THEN S
    ELSE VisitRootsUntilCycle(edges, roots, i + 1,
                    Visit(edges, roots[i], [S EXCEPT !.stack = <<>>, !.ok = TRUE]))

RECURSIVE VisitRoots(_, _, _, _)
VisitRoots(edges, roots, i, S) ==
    IF i > Len(roots) THEN S
    ELSE VisitRoots(edges, roots, i + 1,
                    Visit(edges, roots[i], [S EXCEPT !.stack = <<>>, !.ok = TRUE]))

topological_sort(edges) ==
    LET S == VisitRoots(edges, NodesOf(edges), 1,
                        [visiting |-> {}, visited |-> {}, ordered |-> <<>>,
                         cyclic |-> <<>>, stack |-> <<>>, ok |-> TRUE])
    IN <<S.ordered, S.cyclic>>

\* the cyclic names not taken off
UnneededAuxersKeepingCyclic(aux, srt, cyc) == Range(aux) \ Range(srt)

\* set(aux_variables) - (set(sorted_aux_vars) | set(cyclic_aux_vars))
UnneededAuxers(aux, srt, cyc) == Range(aux) \ (Range(srt) \cup Range(cyc))

Sort ==
    /\ pc = "graphed"
    /\ pc' = "sorted"
    /\ LET r == topological_sort(aux_dep_edges)
       IN /\ sorted_aux_vars' = r[1]
          /\ cyclic_aux_vars' = r[2]
          /\ unneeded_auxers' = UnneededAuxers(aux_variables, r[1], r[2])
    /\ UNCHANGED <<program, state, error, evolved_variables, timesteps, initial_data,
                   all_vars, aux_variables, aux_dep_edges, equations, output,
                   f_trace>>
    /\ UNCHANGED <<prev_output, simvars, hcvars>>

(***************************************************************************)
(* Code generation: to_cpp lines 186-236.                                  *)
(***************************************************************************)
\* State.map_tails(remove_const), State.map_tails(prefix_rhs): every
\* argument, at every depth, goes through the rewrite function
RECURSIVE RemoveConstTails(_)
RemoveConstTails(x) ==
    [x EXCEPT !.tail = [i \in 1..Len(x.tail) |-> remove_const(RemoveConstTails(x.tail[i]))]]

RECURSIVE PrefixTails(_, _)
PrefixTails(ev, x) ==
    [x EXCEPT !.tail = [i \in 1..Len(x.tail) |-> prefix_rhs(ev, PrefixTails(ev, x.tail[i]))]]

Rewritten(st, ev) ==
    [i \in 1..Len(st) |->
        [name |-> st[i].name, def |-> PrefixTails(ev, RemoveConstTails(st[i].def))]]

Comment(g) == [group |-> g, lhs |-> "//", var |-> "", rhs |-> Num("")]
NoneLine(g) == [group |-> g, lhs |-> "/* none */", var |-> "", rhs |-> Num("")]

\* [f"{lhs_struct}.{v} = {state[v]};" for v in lst] if lst else ["/* none */"]
state_assignments(st, g, lhs_struct, lst) ==
    IF lst = <<>> THEN <<NoneLine(g)>>
    ELSE [i \in 1..Len(lst) |->
            [group |-> g, lhs |-> lhs_struct, var |-> lst[i], rhs |-> Lookup(st, lst[i])]]

\* the unneeded auxiliaries emitted before the derivatives
EquationsUnneededFirst(st, srt, cyc, ev, unneeded) ==
    <<Comment(1)>> \o state_assignments(st, 1, "_aux", srt)
    \o <<Comment(2)>> \o state_assignments(st, 2, "_aux", cyc)
    \o <<Comment(4)>> \o state_assignments(st, 4, "_aux", unneeded)
    \o <<Comment(3)>> \o state_assignments(st, 3, "_dqdt", ev)

\* the body of f: lines 208-216
Equations(st, srt, cyc, ev, unneeded) ==
    <<Comment(1)>> \o state_assignments(st, 1, "_aux", srt)
    \o <<Comment(2)>> \o state_assignments(st, 2, "_aux", cyc)
    \o <<Comment(3)>> \o state_assignments(st, 3, "_dqdt", ev)
    \o <<Comment(4)>> \o state_assignments(st, 4, "_aux", unneeded)

\* the orders in which a Python set of names can be iterated
SetOrders(S) ==
    {o \in [1..Cardinality(S) -> S] : \A i, j \in 1..Cardinality(S) : i # j => o[i] # o[j]}

\* state[v] of a name without definition
Undefined(st, lst) == {v \in Range(lst) : ~HasKey(st, v)}

Generate ==
    /\ pc = "sorted"
    /\ IF Undefined(state, sorted_aux_vars \o cyclic_aux_vars \o evolved_variables) # {}
          \/ \E v \in unneeded_auxers : ~HasKey(state, v)
       THEN /\ pc' = "failed"
            /\ error' = "ReferenceError"
            /\ UNCHANGED <<state, equations, output>>
       ELSE \E unneeded \in SetOrders(unneeded_auxers) :
            LET st == Rewritten(state, evolved_variables)
                eq == Equations(st, sorted_aux_vars, cyclic_aux_vars,
                                evolved_variables, unneeded)
            IN /\ pc' = "generated"
               /\ state' = st
               /\ equations' = eq
               /\ output' = [state_var_definition |-> evolved_variables,
                             aux_var_definition |-> aux_variables,
                             aux_var_set_to_nan |-> aux_variables,
                             initial_data |->
                                [i \in 1..Len(evolved_variables) |->
                                    initial_data[evolved_variables[i]]],
                             timestep_data |->
                                [i \in 1..Len(evolved_variables) |->
                                    timesteps[evolved_variables[i]]],
                             equations |-> eq,
                             writer_fields |-> all_vars]
               /\ UNCHANGED error
    /\ UNCHANGED <<program, evolved_variables, timesteps, initial_data, all_vars,
                   aux_variables, aux_dep_edges, sorted_aux_vars,
                   cyclic_aux_vars, unneeded_auxers, f_trace>>
    /\ UNCHANGED <<prev_output, simvars, hcvars>>

(***************************************************************************)
(* The emitted f (cpp_template lines 40-44): set_to_nan(), then the        *)
(* assignments in the order of the text.                                   *)
(***************************************************************************)
\* the auxiliaries an emitted right-hand side reads
RECURSIVE AuxReads(_), AuxReadsOfTail(_, _)
AuxReads(x) ==
    IF x.kind = "_aux" THEN {x.head}
    ELSE IF x.kind = "sym" THEN AuxReadsOfTail(x.tail, 1)
    ELSE {}
AuxReadsOfTail(t, i) ==
    IF i > Len(t) THEN {} ELSE AuxReads(t[i]) \cup AuxReadsOfTail(t, i + 1)

\* Executes eq[i..]; assigned: the auxiliaries assigned since set_to_nan().
\* Each executed assignment is recorded with the auxiliaries it read while
\* they still held the value set_to_nan() gave them.
RECURSIVE Execute(_, _, _)
Execute(eq, i, assigned) ==
    IF i > Len(eq) THEN <<>>
    ELSE IF eq[i].lhs \in {"//", "/* none */"} THEN Execute(eq, i + 1, assigned)
    ELSE <<[group |-> eq[i].group, lhs |-> eq[i].lhs, var |-> eq[i].var,
            nan_reads |-> AuxReads(eq[i].rhs) \ assigned]>>
         \o Execute(eq, i + 1,
                    IF eq[i].lhs = "_aux" THEN assigned \cup {eq[i].var} ELSE assigned)

RunF ==
    /\ pc = "generated"
    /\ pc' = "evaluated"
    /\ f_trace' = Execute(equations, 1, {})
    /\ UNCHANGED <<program, state, error, evolved_variables, timesteps, initial_data,
                   all_vars, aux_variables, aux_dep_edges, sorted_aux_vars,
                   cyclic_aux_vars, unneeded_auxers, equations, output>>
    /\ UNCHANGED <<prev_output, simvars, hcvars>>

(***************************************************************************)
(* to_cpp on every explored Program, then one call of the emitted f.       *)
(***************************************************************************)
NoRun ==
    /\ rk_order = 0
    /\ max_iterations = 0
    /\ modulo_write = 0
    /\ iter = 0
    /\ sim_state = <<>>
    /\ dt = <<>>
    /\ sim_aux = <<>>
    /\ f_coef = <<>>
    /\ f_calls = <<>>
    /\ stdout = <<>>

NoHyCon ==
    /\ unidirectional = FALSE
    /\ fh = [written |-> <<>>, read |-> 0]
    /\ requests = <<>>
    /\ returned = [call |-> "", request |-> 0, value |-> ""]

Blank ==
    /\ error = ""
    /\ evolved_variables = <<>>
    /\ timesteps = NoMap
    /\ initial_data = NoMap
    /\ all_vars = <<>>
    /\ aux_variables = <<>>
    /\ sorted_aux_vars = <<>>
    /\ cyclic_aux_vars = <<>>
    /\ unneeded_auxers = {}
    /\ equations = <<>>
    /\ output = <<>>
    /\ f_trace = <<>>
    /\ prev_output = <<>>
    /\ NoRun
    /\ NoHyCon

Init ==
    /\ \E ns \in InjectiveNameSeqs : \E ds \in [1..Len(ns) -> Defs] :
          program = Program(ns, ds)
    /\ state = program
    /\ pc = "start"
    /\ aux_dep_edges = <<>>
    /\ Blank

Next == Classify \/ BuildGraph \/ Sort \/ Generate \/ RunF

Spec == Init /\ [][Next]_vars

(***************************************************************************)
(* to_cpp called a second time on the same Program, by a later run of the  *)
(* interpreter: what the first call returned is kept for comparison.       *)
(***************************************************************************)
RunAgain ==
    /\ pc = "generated"
    /\ prev_output = <<>>
    /\ prev_output' = output
    /\ pc' = "start"
    /\ state' = program
    /\ error' = ""
    /\ evolved_variables' = <<>>
    /\ timesteps' = NoMap
    /\ initial_data' = NoMap
    /\ all_vars' = <<>>
    /\ aux_variables' = <<>>
    /\ aux_dep_edges' = <<>>
    /\ sorted_aux_vars' = <<>>
    /\ cyclic_aux_vars' = <<>>
    /\ unneeded_auxers' = {}
    /\ equations' = <<>>
    /\ output' = <<>>
    /\ UNCHANGED <<program, f_trace, simvars, hcvars>>

TwoRunsNext == Next \/ RunAgain

TwoRunsSpec == Init /\ [][TwoRunsNext]_vars

(***************************************************************************)
(* to_cpp called on a Program and then on the same definitions handed in   *)
(* in another order.                                                       *)
(***************************************************************************)
Reordered(st) ==
    {[i \in 1..Len(st) |-> st[q[i]]] : q \in SetOrders(1..Len(st))}

RunPermuted ==
    /\ pc = "generated"
    /\ prev_output = <<>>
    /\ prev_output' = output
    /\ program' \in Reordered(program)
    /\ pc' = "start"
    /\ state' = program'
    /\ error' = ""
    /\ evolved_variables' = <<>>
    /\ timesteps' = NoMap
    /\ initial_data' = NoMap
    /\ all_vars' = <<>>
    /\ aux_variables' = <<>>
    /\ aux_dep_edges' = <<>>
    /\ sorted_aux_vars' = <<>>
    /\ cyclic_aux_vars' = <<>>
    /\ unneeded_auxers' = {}
    /\ equations' = <<>>
    /\ output' = <<>>
    /\ UNCHANGED <<f_trace, simvars, hcvars>>

PermutedNext == Next \/ RunPermuted

PermutedSpec == Init /\ [][PermutedNext]_vars

(***************************************************************************)
(* topological_sort on every explored edge list.                           *)
(***************************************************************************)
EdgeLists == SeqsOf(Nodes \X Nodes, 0, MaxEdges)

SortInit ==
    /\ program = <<>>
    /\ state = <<>>
    /\ pc = "edges"
    /\ aux_dep_edges \in EdgeLists
    /\ Blank

SortEdges ==
    /\ pc = "edges"
    /\ pc' = "edges_sorted"
    /\ sorted_aux_vars' = topological_sort(aux_dep_edges)[1]
    /\ cyclic_aux_vars' = topological_sort(aux_dep_edges)[2]
    /\ UNCHANGED <<program, state, error, evolved_variables, timesteps, initial_data,
                   all_vars, aux_variables, aux_dep_edges, unneeded_auxers,
                   equations, output, f_trace>>
    /\ UNCHANGED <<prev_output, simvars, hcvars>>

SortNext == SortEdges

SortSpec == SortInit /\ [][SortNext]_vars

(***************************************************************************)
(* The generated program (cpp_template lines 10-104) for a Program with    *)
(* the state variables x, y and the auxiliary w = x + y, whose derivatives *)
(* are linear in the state.  A double is modelled as an exact fraction     *)
(* <<numerator, denominator>>.                                             *)
(***************************************************************************)
MaxIterations == 3
MaxModulo == 2
MaxOrder == 5

RECURSIVE GCD(_, _)
GCD(a, b) == IF b = 0 THEN a ELSE GCD(b, a % b)

Abs(n) == IF n < 0 THEN 0 - n ELSE n

\* the fraction n/d (d > 0) in lowest terms
Rat(n, d) == LET g == GCD(Abs(n), d) IN <<n \div g, d \div g>>

\* sum and product of two fractions, the common factors taken out first
RAdd(p, q) ==
    LET g == GCD(p[2], q[2])
    IN Rat(p[1] * (q[2] \div g) + q[1] * (p[2] \div g), (p[2] \div g) * q[2])
RMul(p, q) ==
    LET g == GCD(Abs(p[1]), q[2])
        h == GCD(Abs(q[1]), p[2])
    IN Rat((p[1] \div g) * (q[1] \div h), (p[2] \div h) * (q[2] \div g))

\* make_operator("+", state_type), ("*", state_type), ("*", "double")
PlusState(u, v) == [i \in 1..Len(u) |-> RAdd(u[i], v[i])]
TimesState(u, v) == [i \in 1..Len(u) |-> RMul(u[i], v[i])]
TimesDouble(u, r) == [i \in 1..Len(u) |-> RMul(u[i], r)]

StateFields == <<"x", "y">>
AuxFields == <<"w">>

\* the derivatives a Program defines: dqdt = A * state + b
Derivatives ==
    { [A |-> <<<<0, 1>>, <<-1, 0>>>>, b |-> <<0, 0>>],
      [A |-> <<<<1, 0>>, <<1, 1>>>>, b |-> <<1, 0>>] }

InitialData == { <<Rat(1, 1), Rat(0, 1)>>, <<Rat(1, 2), Rat(-1, 1)>> }
TimestepData == { <<Rat(1, 1), Rat(2, 1)>> }
WriterFields == { <<"w", "x", "y">>, <<"y", "w">> }

\* f(_state, _dqdt, _aux): the derivatives and the auxiliaries it leaves
f(c, s) ==
    [dqdt |-> [i \in 1..Len(s) |->
                 RAdd(RAdd(RMul(Rat(c.A[i][1], 1), s[1]),
                           RMul(Rat(c.A[i][2], 1), s[2])),
                      Rat(c.b[i], 1))],
     aux |-> <<RAdd(s[1], s[2])>>]

\* one case of the switch: the arguments f was called with, in order, the
\* new _state, and _aux as the last call left it
case_1(c, s, h) ==
    LET k1 == f(c, s)
    IN [calls |-> <<s>>,
        state |-> PlusState(s, TimesState(k1.dqdt, h)),
        aux |-> k1.aux]

case_2(c, s, h) ==
    LET k1 == f(c, s)
        a2 == PlusState(s, TimesState(k1.dqdt, h))
        k2 == f(c, a2)
    IN [calls |-> <<s, a2>>,
        state |-> PlusState(s, TimesDouble(TimesState(PlusState(k1.dqdt, k2.dqdt), h),
                                           Rat(1, 2))),
        aux |-> k2.aux]

\* the third stage without the factor 2.0 of k2
case_3_single_k2(c, s, h) ==
    LET k1 == f(c, s)
        a2 == PlusState(s, TimesDouble(TimesState(h, k1.dqdt), Rat(1, 2)))
        k2 == f(c, a2)
        a3 == PlusState(PlusState(s, TimesDouble(TimesState(h, k1.dqdt), Rat(-1, 1))),
                        TimesState(h, k2.dqdt))
        k3 == f(c, a3)
    IN [calls |-> <<s, a2, a3>>,
        state |-> PlusState(s, TimesDouble(TimesState(
                     PlusState(PlusState(k1.dqdt, TimesDouble(k2.dqdt, Rat(4, 1))),
                               TimesDouble(k3.dqdt, Rat(1, 1))), h), Rat(1, 6))),
        aux |-> k3.aux]

case_3(c, s, h) ==
    LET k1 == f(c, s)
        a2 == PlusState(s, TimesDouble(TimesState(h, k1.dqdt), Rat(1, 2)))
        k2 == f(c, a2)
        a3 == PlusState(PlusState(s, TimesDouble(TimesState(h, k1.dqdt), Rat(-1, 1))),
                        TimesDouble(TimesState(h, k2.dqdt), Rat(2, 1)))
        k3 == f(c, a3)
    IN [calls |-> <<s, a2, a3>>,
        state |-> PlusState(s, TimesDouble(TimesState(
                     PlusState(PlusState(k1.dqdt, TimesDouble(k2.dqdt, Rat(4, 1))),
                               TimesDouble(k3.dqdt, Rat(1, 1))), h), Rat(1, 6))),
        aux |-> k3.aux]

case_4(c, s, h) ==
    LET k1 == f(c, s)
        a2 == PlusState(s, TimesDouble(TimesState(h, k1.dqdt), Rat(1, 2)))
        k2 == f(c, a2)
        a3 == PlusState(s, TimesDouble(TimesState(h, k2.dqdt), Rat(1, 2)))
        k3 == f(c, a3)
        a4 == PlusState(s, TimesDouble(TimesState(h, k3.dqdt), Rat(1, 1)))
        k4 == f(c, a4)
    IN [calls |-> <<s, a2, a3, a4>>,
        state |-> PlusState(s, TimesDouble(TimesState(
                     PlusState(PlusState(PlusState(k1.dqdt, TimesDouble(k2.dqdt, Rat(2, 1))),
                                         TimesDouble(k3.dqdt, Rat(2, 1))),
                               k4.dqdt), h), Rat(1, 6))),
        aux |-> k4.aux]

IndexOf(lst, n) == CHOOSE i \in 1..Len(lst) : lst[i] = n

\* writer_format_arguments: struct_for(v).v for v in writer_fields
writer_format_arguments(fields, s, a) ==
    [i \in 1..Len(fields) |->
        IF struct_for(StateFields, fields[i]) = "_state"
        THEN s[IndexOf(StateFields, fields[i])]
        ELSE a[IndexOf(AuxFields, fields[i])]]

\* a row after every step
printf_every_step(out, it, fields, s, a) ==
    Append(out, [kind |-> "row", values |-> writer_format_arguments(fields, s, a)])

\* if(iter % modulo_write == 0) printf(...)
printf(out, it, fields, s, a) ==
    IF it % modulo_write = 0
    THEN Append(out, [kind |-> "row", values |-> writer_format_arguments(fields, s, a)])
    ELSE out

\* main up to the call of simulate_dda, and the declarations of simulate_dda
Main ==
    /\ pc = "main"
    /\ pc' = "loop"
    /\ stdout' = <<[kind |-> "header", values |-> output.writer_fields]>>
    /\ iter' = 0
    /\ UNCHANGED <<program, state, error, evolved_variables, timesteps, initial_data,
                   all_vars, aux_variables, aux_dep_edges, sorted_aux_vars,
                   cyclic_aux_vars, unneeded_auxers, equations, output, f_trace,
                   prev_output, rk_order, max_iterations, modulo_write, sim_state,
                   dt, sim_aux, f_coef, f_calls, hcvars>>

\* one pass through the body of the for loop with a supported rk_order
Iterate ==
    /\ pc = "loop"
    /\ iter < max_iterations
    /\ rk_order \in 1..4
    /\ LET r == CASE rk_order = 1 -> case_1(f_coef, sim_state, dt)
                  [] rk_order = 2 -> case_2(f_coef, sim_state, dt)
                  [] rk_order = 3 -> case_3(f_coef, sim_state, dt)
                  [] rk_order = 4 -> case_4(f_coef, sim_state, dt)
       IN /\ f_calls' = r.calls
          /\ sim_state' = r.state
          /\ sim_aux' = r.aux
          /\ stdout' = printf(stdout, iter, output.writer_fields, r.state, r.aux)
    /\ iter' = iter + 1
    /\ UNCHANGED <<program, state, pc, error, evolved_variables, timesteps, initial_data,
                   all_vars, aux_variables, aux_dep_edges, sorted_aux_vars,
                   cyclic_aux_vars, unneeded_auxers, equations, output, f_trace,
                   prev_output, rk_order, max_iterations, modulo_write,
                   dt, f_coef, hcvars>>

\* default: exit(-42)
Exit42 ==
    /\ pc = "loop"
    /\ iter < max_iterations
    /\ rk_order \notin 1..4
    /\ pc' = "exited"
    /\ UNCHANGED <<program, state, error, evolved_variables, timesteps, initial_data,
                   all_vars, aux_variables, aux_dep_edges, sorted_aux_vars,
                   cyclic_aux_vars, unneeded_auxers, equations, output, f_trace,
                   prev_output, simvars, hcvars>>

\* the loop condition fails: return _state, main ends
Return ==
    /\ pc = "loop"
    /\ ~(iter < max_iterations)
    /\ pc' = "returned"
    /\ UNCHANGED <<program, state, error, evolved_variables, timesteps, initial_data,
                   all_vars, aux_variables, aux_dep_edges, sorted_aux_vars,
                   cyclic_aux_vars, unneeded_auxers, equations, output, f_trace,
                   prev_output, simvars, hcvars>>

\* the program to_cpp generated for the options rk_order, max_iterations,
\* modulo_write and writer_fields, before main starts
SimInit ==
    /\ program = <<>>
    /\ state = <<>>
    /\ pc = "main"
    /\ error = ""
    /\ evolved_variables = StateFields
    /\ timesteps = NoMap
    /\ initial_data = NoMap
    /\ all_vars = sorted({"w", "x", "y"})
    /\ aux_variables = AuxFields
    /\ aux_dep_edges = <<>>
    /\ sorted_aux_vars = <<>>
    /\ cyclic_aux_vars = <<>>
    /\ unneeded_auxers = {}
    /\ equations = <<>>
    /\ \E fields \in WriterFields : output = [writer_fields |-> fields]
    /\ f_trace = <<>>
    /\ prev_output = <<>>
    /\ rk_order \in 0..MaxOrder
    /\ max_iterations \in 0..MaxIterations
    /\ modulo_write \in 1..MaxModulo
    /\ iter = 0
    /\ sim_state \in InitialData
    /\ dt \in TimestepData
    /\ sim_aux = <<>>
    /\ f_coef \in Derivatives
    /\ f_calls = <<>>
    /\ stdout = <<>>
    /\ NoHyCon

SimNext == Main \/ Iterate \/ Exit42 \/ Return

SimSpec == SimInit /\ [][SimNext]_vars

(***************************************************************************)
(* The traditional DDA format: read_traditional_dda and the two exporters, *)
(* dda.dsl.to_traditional_dda and pydda.dsl.traditional_dda_exporter.run.  *)
(***************************************************************************)
MaxStatements == 4

\* the assignments of the module doctest, and a second definition of z
Statements ==
    { [name |-> "dt", def |-> Const("0.5")],
      [name |-> "y0", def |-> Const("1")],
      [name |-> "z", def |-> Symbol("mult", <<Var("y"), Var("y")>>)],
      [name |-> "y", def |-> Symbol("int", <<Var("y"), Var("dt"), Var("y0")>>)],
      [name |-> "z", def |-> Symbol("neg", <<Symbol("mult", <<Var("y"), Const("2")>>)>>)] }

DoctestDocument ==
    << [name |-> "dt", def |-> Const("0.5")],
       [name |-> "y0", def |-> Const("1")],
       [name |-> "z", def |-> Symbol("mult", <<Var("y"), Var("y")>>)],
       [name |-> "y", def |-> Symbol("int", <<Var("y"), Var("dt"), Var("y0")>>)] >>

Prefixes == {"", "# Canonical DDA file generated by PyDDA\n"}
Suffixes == {"", "\n"}

\* collections.OrderedDict(result): a name keeps the place of its first
\* assignment and the value of its last
RECURSIVE OrderedDict(_, _, _)
OrderedDict(pairs, i, acc) ==
    IF i > Len(pairs) THEN acc
    ELSE OrderedDict(pairs, i + 1,
            IF HasKey(acc, pairs[i].name)
            THEN [j \in 1..Len(acc) |->
                     IF acc[j].name = pairs[i].name THEN pairs[i] ELSE acc[j]]
            ELSE Append(acc, pairs[i]))

\* the definitions in the order they were read
ExportOrderAsRead(st) == Keys(st)

\* for k in sorted(state)
ExportOrder(st) == sorted(Range(Keys(st)))

TextLine(t) == [kind |-> "text", text |-> t]

\* f"{k} = {state[k]}" for k in sorted(state)
DefinitionLines(st) ==
    LET order == ExportOrder(st)
    IN [i \in 1..Len(order) |->
          [kind |-> "assignment", name |-> order[i], expr |-> Lookup(st, order[i])]]

\* state.map_tails(remove_const)
MapTailsRemoveConst(st) ==
    [i \in 1..Len(st) |-> [name |-> st[i].name, def |-> RemoveConstTails(st[i].def)]]

\* read_traditional_dda(content)
ReadTraditionalDDA ==
    /\ pc = "document"
    /\ pc' = "read"
    /\ state' = OrderedDict(program, 1, <<>>)
    /\ UNCHANGED <<program, error, evolved_variables, timesteps, initial_data,
                   all_vars, aux_variables, aux_dep_edges, sorted_aux_vars,
                   cyclic_aux_vars, unneeded_auxers, equations, output, f_trace,
                   prev_output, simvars, hcvars>>

\* to_traditional_dda(state, cleanup, prefix, suffix); clean(state,
\* target="dda") leaves the definitions of the explored documents as they are
ToTraditionalDDA ==
    /\ pc = "read"
    /\ pc' = "exported"
    /\ \E cleanup \in BOOLEAN, prefix \in Prefixes, suffix \in Suffixes :
          LET st == IF cleanup THEN MapTailsRemoveConst(state) ELSE state
          IN output' = (IF prefix # "" THEN <<TextLine(prefix)>> ELSE <<>>)
                       \o DefinitionLines(st)
                       \o (IF suffix # "" THEN <<TextLine(suffix)>> ELSE <<>>)
    /\ UNCHANGED <<program, state, error, evolved_variables, timesteps, initial_data,
                   all_vars, aux_variables, aux_dep_edges, sorted_aux_vars,
                   cyclic_aux_vars, unneeded_auxers, equations, f_trace,
                   prev_output, simvars, hcvars>>

\* traditional_dda_exporter.run()
ExporterRun ==
    /\ pc = "read"
    /\ pc' = "exporter_ran"
    /\ output' = <<TextLine("# Canonical DDA file generated by PyDDA"), TextLine("")>>
                 \o DefinitionLines(MapTailsRemoveConst(state))
                 \o <<TextLine("")>>
    /\ UNCHANGED <<program, state, error, evolved_variables, timesteps, initial_data,
                   all_vars, aux_variables, aux_dep_edges, sorted_aux_vars,
                   cyclic_aux_vars, unneeded_auxers, equations, f_trace,
                   prev_output, simvars, hcvars>>

\* a document of up to MaxStatements assignments, in any order
DDAInit ==
    /\ program \in SeqsOf(Statements, 0, MaxStatements)
    /\ state = <<>>
    /\ pc = "document"
    /\ aux_dep_edges = <<>>
    /\ Blank

DDANext == ReadTraditionalDDA \/ ToTraditionalDDA \/ ExporterRun

DDASpec == DDAInit /\ [][DDANext]_vars

(***************************************************************************)
(* PyHyCon: HyConRequest and HyCon over a channel fh.  fh.written lists    *)
(* what was written, each entry with the request that wrote it; fh.read    *)
(* counts the calls of fh.readline().                                      *)
(***************************************************************************)
MaxRequests == 2
MaxReads == 2
MaxTime == 999999

\* the commands explored, each with the response it expects ("None": none)
Commands ==
    { [command |-> "x", expected |-> "RESET"],
      [command |-> "G0040.", expected |-> "None"] }

\* what fh.readline().strip() can give
Lines == {"", "RESET"}

Times == {-1, 234, MaxTime}

\* 'C%06d' % ictime and 'c%06d' % optime for the explored times
Format06d(letter, t) ==
    IF t = 234 THEN (IF letter = "C" THEN "C000234" ELSE "c000234")
    ELSE (IF letter = "C" THEN "C999999" ELSE "c999999")

\* f"T_IC={ictime}" and f"T_OP={optime}"
FormatTime(name, t) ==
    IF t = 234 THEN (IF name = "T_IC" THEN "T_IC=234" ELSE "T_OP=234")
    ELSE (IF name = "T_IC" THEN "T_IC=999999" ELSE "T_OP=999999")

\* HyConRequest.__init__
HyConRequest(c) ==
    [command |-> c.command, expected_response |-> c.expected, executed |-> FALSE,
     response |-> "n.a.", reply |-> "n.a.", checks |-> 0]

Raised(call, i, what) == [call |-> call, request |-> i, value |-> what]
Returned(call, i) == [call |-> call, request |-> i, value |-> "self"]

\* write() sending the command whatever executed is
write_unguarded(r, h, i) ==
    [request |-> [r EXCEPT !.executed = TRUE],
     fh |-> [h EXCEPT !.written = Append(@, [request |-> i, command |-> r.command])],
     returned |-> Returned("write", i)]

\* HyConRequest.write(hycon) of request i
write(r, h, i) ==
    IF r.executed
    THEN [request |-> r, fh |-> h,
          returned |-> Raised("write", i, "ValueError: Shall not execute same command twice.")]
    ELSE [request |-> [r EXCEPT !.executed = TRUE],
          fh |-> [h EXCEPT !.written = Append(@, [request |-> i, command |-> r.command])],
          returned |-> Returned("write", i)]

\* HyConRequest.read(hycon, expected_response, read_again) of request i;
\* line is what fh.readline().strip() gives if it is called
read(r, h, i, uni, expected_response, read_again, line) ==
    LET expected == IF expected_response = "None" THEN r.expected_response
                    ELSE expected_response
    IN IF uni THEN [request |-> r, fh |-> h, returned |-> Returned("read", i)]
       ELSE IF expected = "None"
       THEN [request |-> r, fh |-> h, returned |-> Returned("read", i)]
       ELSE LET reads == read_again \/ r.response = "n.a."
                r1 == IF reads THEN [r EXCEPT !.response = line] ELSE r
                h1 == IF reads THEN [h EXCEPT !.read = @ + 1] ELSE h
            IN IF r1.response = ""
               THEN [request |-> r1, fh |-> h1,
                     returned |-> Raised("read", i, "ValueError: No Response from Hybrid controller!")]
               ELSE IF r1.response # expected
               THEN [request |-> [r1 EXCEPT !.checks = 1], fh |-> h1,
                     returned |-> Raised("read", i, "ValueError: Unexpected response")]
               ELSE [request |-> [r1 EXCEPT !.checks = 1, !.reply = r1.response],
                     fh |-> h1, returned |-> Returned("read", i)]

\* HyCon.query: HyConRequest(...).write(self).read(self)
query(c, h, i, uni, line) ==
    LET w == write(HyConRequest(c), h, i)
    IN IF w.returned.value # "self" THEN w
       ELSE read(w.request, w.fh, i, uni, "None", FALSE, line)

\* a request is created and kept by the caller
NewRequest ==
    /\ pc = "connected"
    /\ Len(requests) < MaxRequests
    /\ \E c \in Commands : requests' = Append(requests, HyConRequest(c))
    /\ returned' = [call |-> "HyConRequest", request |-> Len(requests) + 1, value |-> "self"]
    /\ UNCHANGED <<program, state, pc, error, evolved_variables, timesteps, initial_data,
                   all_vars, aux_variables, aux_dep_edges, sorted_aux_vars,
                   cyclic_aux_vars, unneeded_auxers, equations, output, f_trace,
                   prev_output, simvars, unidirectional, fh>>

Write ==
    /\ pc = "connected"
    /\ \E i \in 1..Len(requests) :
          LET w == write(requests[i], fh, i)
          IN /\ requests' = [requests EXCEPT ![i] = w.request]
             /\ fh' = w.fh
             /\ returned' = w.returned
    /\ UNCHANGED <<program, state, pc, error, evolved_variables, timesteps, initial_data,
                   all_vars, aux_variables, aux_dep_edges, sorted_aux_vars,
                   cyclic_aux_vars, unneeded_auxers, equations, output, f_trace,
                   prev_output, simvars, unidirectional>>

Read ==
    /\ pc = "connected"
    /\ fh.read < MaxReads
    /\ \E i \in 1..Len(requests), e \in {"None", "EOSR"}, again \in BOOLEAN,
          line \in (IF unidirectional THEN {""} ELSE Lines) :
          LET r == read(requests[i], fh, i, unidirectional, e, again, line)
          IN /\ requests' = [requests EXCEPT ![i] = r.request]
             /\ fh' = r.fh
             /\ returned' = [r.returned EXCEPT !.call = "read"]
    /\ UNCHANGED <<program, state, pc, error, evolved_variables, timesteps, initial_data,
                   all_vars, aux_variables, aux_dep_edges, sorted_aux_vars,
                   cyclic_aux_vars, unneeded_auxers, equations, output, f_trace,
                   prev_output, simvars, unidirectional>>

\* the request a query makes and returns
Queried(c, line) ==
    LET i == Len(requests) + 1
        q == query(c, fh, i, unidirectional, line)
    IN /\ requests' = Append(requests, q.request)
       /\ fh' = q.fh
       /\ returned' = [q.returned EXCEPT !.call = "query"]

\* HyCon.query, and the methods command() makes (ic, reset, ...)
Query ==
    /\ pc = "connected"
    /\ Len(requests) < MaxRequests
    /\ fh.read < MaxReads
    /\ \E c \in Commands, line \in Lines : Queried(c, line)
    /\ UNCHANGED <<program, state, pc, error, evolved_variables, timesteps, initial_data,
                   all_vars, aux_variables, aux_dep_edges, sorted_aux_vars,
                   cyclic_aux_vars, unneeded_auxers, equations, output, f_trace,
                   prev_output, simvars, unidirectional>>

\* HyCon.set_ic_time: ensure(ictime, within=range(0,999999)), then the query
SetIcTime ==
    /\ pc = "connected"
    /\ Len(requests) < MaxRequests
    /\ fh.read < MaxReads
    /\ \E t \in Times, line \in {"", "T_IC=234"} :
          IF t \in 0..(MaxTime - 1)
          THEN Queried([command |-> Format06d("C", t),
                        expected |-> FormatTime("T_IC", t)], line)
          ELSE /\ returned' = Raised("set_ic_time", 0, "ValueError: none of range(0, 999999)")
               /\ UNCHANGED <<requests, fh>>
    /\ UNCHANGED <<program, state, pc, error, evolved_variables, timesteps, initial_data,
                   all_vars, aux_variables, aux_dep_edges, sorted_aux_vars,
                   cyclic_aux_vars, unneeded_auxers, equations, output, f_trace,
                   prev_output, simvars, unidirectional>>

\* HyCon.set_op_time: ensure(optime, inrange=(0,999999)), then the query
SetOpTime ==
    /\ pc = "connected"
    /\ Len(requests) < MaxRequests
    /\ fh.read < MaxReads
    /\ \E t \in Times, line \in {"", "T_OP=234"} :
          IF t >= 0 /\ t <= MaxTime
          THEN Queried([command |-> Format06d("c", t),
                        expected |-> FormatTime("T_OP", t)], line)
          ELSE /\ returned' = Raised("set_op_time", 0, "ValueError: not in range(0, 999999)")
               /\ UNCHANGED <<requests, fh>>
    /\ UNCHANGED <<program, state, pc, error, evolved_variables, timesteps, initial_data,
                   all_vars, aux_variables, aux_dep_edges, sorted_aux_vars,
                   cyclic_aux_vars, unneeded_auxers, equations, output, f_trace,
                   prev_output, simvars, unidirectional>>

\* HyCon(fh, unidirectional): nothing is sent at construction
HyConInit ==
    /\ program = <<>>
    /\ state = <<>>
    /\ pc = "connected"
    /\ error = ""
    /\ evolved_variables = <<>>
    /\ timesteps = NoMap
    /\ initial_data = NoMap
    /\ all_vars = <<>>
    /\ aux_variables = <<>>
    /\ aux_dep_edges = <<>>
    /\ sorted_aux_vars = <<>>
    /\ cyclic_aux_vars = <<>>
    /\ unneeded_auxers = {}
    /\ equations = <<>>
    /\ output = <<>>
    /\ f_trace = <<>>
    /\ prev_output = <<>>
    /\ NoRun
    /\ unidirectional \in BOOLEAN
    /\ fh = [written |-> <<>>, read |-> 0]
    /\ requests = <<>>
    /\ returned = [call |-> "HyCon", request |-> 0, value |-> "self"]

HyConNext == NewRequest \/ Write \/ Read \/ Query \/ SetIcTime \/ SetOpTime

HyConSpec == HyConInit /\ [][HyConNext]_vars

(***************************************************************************)
(* Properties of the emitted derivative function f.                        *)
(***************************************************************************)
IsAssignment(line) == line.lhs \notin {"//", "/* none */"}

\* the variables assigned by the lines of group g, in the order of the text
RECURSIVE AssignedIn(_, _)
AssignedIn(eq, g) ==
    IF eq = <<>> THEN <<>>
    ELSE IF IsAssignment(Head(eq)) /\ Head(eq).group = g
         THEN <<Head(eq).var>> \o AssignedIn(Tail(eq), g)
         ELSE AssignedIn(Tail(eq), g)

NoRepeat(lst) == \A i, j \in 1..Len(lst) : i # j => lst[i] # lst[j]

GroupsInOrder(lines) ==
    \A i, j \in 1..Len(lines) : i < j => lines[i].group <= lines[j].group

C2_NoDerivativeReadsReset ==
    pc = "evaluated" =>
        \A i \in 1..Len(f_trace) :
            f_trace[i].lhs = "_dqdt" => f_trace[i].nan_reads = {}

(***************************************************************************)
(* Properties of the topological sorter.                                   *)
(***************************************************************************)
EdgeSet == Range(aux_dep_edges)
EdgeNodes == {e[1] : e \in EdgeSet} \cup {e[2] : e \in EdgeSet}
Successors(n) == {e[2] : e \in {d \in EdgeSet : d[1] = n}}

RECURSIVE ClosedUnder(_)
ClosedUnder(S) ==
    LET T == S \cup UNION {Successors(n) : n \in S}
    IN IF T = S THEN S ELSE ClosedUnder(T)

\* the nodes reached from n by one or more dependency edges
Reaches(n) == ClosedUnder(Successors(n))
OnCycle(n) == n \in Reaches(n)
Acyclic == \A n \in EdgeNodes : ~OnCycle(n)
ReachesCycle(n) == \E m \in Reaches(n) \cup {n} : OnCycle(m)

Position(lst, n) == CHOOSE i \in 1..Len(lst) : lst[i] = n

\* C3: for an acyclic edge list the ordered sequence holds every node of the
\* edge list exactly once, every dependency before its dependent, and the
\* cyclic set is empty.
C3_AcyclicIsSorted ==
    (pc = "edges_sorted" /\ Acyclic) =>
        /\ cyclic_aux_vars = <<>>
        /\ Range(sorted_aux_vars) = EdgeNodes
        /\ NoRepeat(sorted_aux_vars)
        /\ \A e \in EdgeSet :
              Position(sorted_aux_vars, e[2]) < Position(sorted_aux_vars, e[1])

\* a depends on b and c, c depends on b
C3_Witness ==
    /\ pc = "edges_sorted"
    /\ aux_dep_edges = << <<"a", "b">>, <<"a", "c">>, <<"c", "b">> >>
    /\ sorted_aux_vars = <<"b", "c", "a">>
    /\ cyclic_aux_vars = <<>>

\* C5: every name of the cyclic set lies on a dependency cycle.
C5_CyclicSetOnCycles ==
    pc = "edges_sorted" => \A n \in Range(cyclic_aux_vars) : OnCycle(n)

\* C6: every node on a dependency cycle is in the cyclic set and not in the
\* ordered sequence; for a -> b, b -> a the ordered sequence is empty and the
\* cyclic set is {a, b}.
C6_CycleNodesReported ==
    pc = "edges_sorted" =>
        /\ \A n \in EdgeNodes :
              OnCycle(n) => /\ n \in Range(cyclic_aux_vars)
                            /\ n \notin Range(sorted_aux_vars)
        /\ EdgeSet = {<<"a", "b">>, <<"b", "a">>} =>
              /\ sorted_aux_vars = <<>>
              /\ Range(cyclic_aux_vars) = {"a", "b"}

\* the two-node cycle, entered at b
C6_Witness ==
    /\ pc = "edges_sorted"
    /\ aux_dep_edges = << <<"b", "a">>, <<"a", "b">> >>
    /\ sorted_aux_vars = <<>>
    /\ Range(cyclic_aux_vars) = {"a", "b"}

\* C7: in an edge list with a cycle, every node that neither lies on a cycle
\* nor reaches one is in the ordered sequence, after all its dependencies.
C7_RemainderStillSorted ==
    (pc = "edges_sorted" /\ ~Acyclic) =>
        \A n \in EdgeNodes :
            ~ReachesCycle(n) =>
                /\ n \in Range(sorted_aux_vars)
                /\ \A m \in Successors(n) :
                      /\ m \in Range(sorted_aux_vars)
                      /\ Position(sorted_aux_vars, m) < Position(sorted_aux_vars, n)

\* the cycle a <-> b is met first, c -> d is sorted all the same
C7_Witness ==
    /\ pc = "edges_sorted"
    /\ aux_dep_edges = << <<"a", "b">>, <<"b", "a">>, <<"c", "d">> >>
    /\ sorted_aux_vars = <<"d", "c">>
    /\ Range(cyclic_aux_vars) = {"a", "b"}

(***************************************************************************)
(* Properties of the classification and of what the sorter is fed with,    *)
(* stated on the Program handed to to_cpp.                                 *)
(***************************************************************************)
IsInt(n) == HasKey(program, n) /\ Lookup(program, n).head = "int"
ProgramNames == Range(Keys(program))

\* the names the definition of n refers to, its step and initial value
\* arguments left out if n is a state variable
Integrand(n) ==
    LET d == Lookup(program, n)
    IN IF d.head = "int" /\ Len(d.tail) >= 2
       THEN [d EXCEPT !.tail = SubSeq(d.tail, 1, Len(d.tail) - 2)]
       ELSE d
RefersTo(n) == IF HasKey(program, n) THEN Range(all_variables(Integrand(n))) ELSE {}

\* v is an end of a dependency between two auxiliaries
InAuxToAuxEdge(v) ==
    /\ ~IsInt(v)
    /\ \/ \E b \in RefersTo(v) : ~IsInt(b)
       \/ \E a \in ProgramNames : ~IsInt(a) /\ v \in RefersTo(a)

\* C4: the ordered sequence and the cyclic set have no name in common, and
\* an auxiliary that is in no auxiliary-to-auxiliary dependency is in
\* neither of them.
C4_DisjointAndIsolatedOutside ==
    pc = "sorted" =>
        /\ Range(sorted_aux_vars) \cap Range(cyclic_aux_vars) = {}
        /\ \A v \in Range(aux_variables) :
              ~InAuxToAuxEdge(v) =>
                  v \notin Range(sorted_aux_vars) \cup Range(cyclic_aux_vars)

\* c = const(5) beside a -> b
C4_Witness ==
    /\ pc = "sorted"
    /\ HasKey(program, "c") /\ Lookup(program, "c") = Const("5")
    /\ ~InAuxToAuxEdge("c")
    /\ "c" \in unneeded_auxers
    /\ sorted_aux_vars = <<"b", "a">>
    /\ cyclic_aux_vars = <<>>

\* C8: the state set and the auxiliary set are disjoint, every name of the
\* Program is in exactly one of them, and a name is in the state set exactly
\* when the head of its definition is int.
C8_ClassificationPartition ==
    pc \in {"graphed", "sorted", "generated", "evaluated"} =>
        /\ Range(evolved_variables) \cap Range(aux_variables) = {}
        /\ \A n \in ProgramNames \cup Range(all_vars) :
              /\ n \in Range(evolved_variables) \cup Range(aux_variables)
              /\ n \in Range(evolved_variables) <=> IsInt(n)

\* two state variables and one auxiliary
C8_Witness ==
    /\ pc = "graphed"
    /\ evolved_variables = <<"a", "c">>
    /\ aux_variables = <<"b">>
    /\ IsInt("a") /\ IsInt("c") /\ ~IsInt("b")

Unwrapped(x) ==
    IF x.kind = "sym" /\ x.head = "const" /\ Len(x.tail) = 1 THEN x.tail[1] ELSE x

HasShortInt == \E n \in ProgramNames : IsInt(n) /\ Len(Lookup(program, n).tail) < 3

\* C10: a Program with an int of fewer than 3 arguments makes to_cpp fail
\* with ValueError in the classification; no code is returned.
C10_ShortIntIsFatal ==
    HasShortInt =>
        /\ pc \in {"start", "failed"}
        /\ pc = "failed" => error = "ValueError"
        /\ output = <<>>
        /\ equations = <<>>

\* two well-formed definitions, then int(c, const(1))
C10_Witness ==
    /\ pc = "failed"
    /\ error = "ValueError"
    /\ output = <<>>
    /\ Len(program) = 3
    /\ program[1].def = Symbol("add", <<Var("b")>>)
    /\ program[2].def = Symbol("int", <<Var("a"), Const("0.5"), Num("1")>>)
    /\ program[3].def = Symbol("int", <<Var("c"), Const("1")>>)

(***************************************************************************)
(* Undefined names, repeated runs and permuted Programs.                   *)
(***************************************************************************)
\* the names a definition of the Program refers to without the Program
\* defining them, step and initial value arguments included
UndefinedReferences ==
    UNION {Range(all_variables(program[i].def)) : i \in 1..Len(program)}
    \ ProgramNames

\* C11: a Program that refers to a name it does not define never makes
\* to_cpp return code, and no returned code declares an auxiliary field
\* that f does not assign.
C11_UndefinedNameIsFatal ==
    /\ UndefinedReferences # {} => pc \notin {"generated", "evaluated"} /\ output = <<>>
    /\ pc = "generated" =>
          \A i \in 1..Len(output.aux_var_definition) :
             \E j \in 1..Len(equations) :
                /\ equations[j].lhs = "_aux"
                /\ equations[j].var = output.aux_var_definition[i]

\* C12: a second run of to_cpp on the same Program with the same options
\* returns the same code as the first run, the order of the assignments of
\* the unordered auxiliaries included.
C12_SecondRunSameOutput ==
    (pc = "generated" /\ prev_output # <<>>) => output = prev_output

\* C13: to_cpp on a permutation of the definitions of a Program returns
\* the code it returned for the Program: the fields of the two records,
\* the initial and step data, the assignments in f and the reported fields
\* are the same and in the same order.
C13_PermutationSameOutput ==
    (pc = "generated" /\ prev_output # <<>>) =>
        /\ output.state_var_definition = prev_output.state_var_definition
        /\ output.aux_var_definition = prev_output.aux_var_definition
        /\ output.aux_var_set_to_nan = prev_output.aux_var_set_to_nan
        /\ output.initial_data = prev_output.initial_data
        /\ output.timestep_data = prev_output.timestep_data
        /\ output.writer_fields = prev_output.writer_fields
        /\ output.equations = prev_output.equations

\* the same without the fourth group of f, whose order is that of a set
C13_SameOutputUpToUnordered ==
    (pc = "generated" /\ prev_output # <<>>) =>
        LET ordered(eq) == SelectSeq(eq, LAMBDA l : l.group # 4)
        IN ordered(output.equations) = ordered(prev_output.equations)

\* the auxiliaries one evaluation of f assigned, in the order of execution
AuxAssigned(trace) ==
    LET a == SelectSeq(trace, LAMBDA t : t.lhs = "_aux")
    IN [i \in 1..Len(a) |-> a[i].var]

\* C19: once the auxiliaries are sorted, the ordered sequence, the cyclic
\* names and the unordered set hold no name twice, are pairwise disjoint and
\* together are exactly the auxiliaries declared in the auxiliary record;
\* an evaluation of f assigns every declared auxiliary exactly once.
C19_EveryAuxiliaryAssignedOnce ==
    /\ pc \in {"sorted", "generated", "evaluated"} =>
          /\ NoRepeat(sorted_aux_vars)
          /\ NoRepeat(cyclic_aux_vars)
          /\ Range(sorted_aux_vars) \cap Range(cyclic_aux_vars) = {}
          /\ Range(sorted_aux_vars) \cap unneeded_auxers = {}
          /\ Range(cyclic_aux_vars) \cap unneeded_auxers = {}
          /\ Range(sorted_aux_vars) \cup Range(cyclic_aux_vars) \cup unneeded_auxers
                = Range(aux_variables)
    /\ pc = "evaluated" =>
          /\ NoRepeat(AuxAssigned(f_trace))
          /\ Range(AuxAssigned(f_trace)) = Range(output.aux_var_definition)
          /\ NoRepeat(output.aux_var_definition)

\* f was evaluated for a Program with three auxiliaries, of which some are
\* ordered and one is cyclic
C19_Witness ==
    /\ pc = "evaluated"
    /\ Len(output.aux_var_definition) = 3
    /\ sorted_aux_vars # <<>>
    /\ cyclic_aux_vars # <<>>
    /\ Len(AuxAssigned(f_trace)) = 3

\* f was evaluated for a Program with a cyclic and an unordered auxiliary
C19_WitnessUnordered ==
    /\ pc = "evaluated"
    /\ cyclic_aux_vars # <<>>
    /\ unneeded_auxers # {}

(***************************************************************************)
(* Properties of the generated program.                                    *)
(***************************************************************************)
Rows(out) == SelectSeq(out, LAMBDA l : l.kind = "row")

\* C14: with an rk_order outside 1..4 the generated program never returns
\* from simulate_dda, whatever max_iterations is, and writes no data row.
C14_UnsupportedOrderIsFatal ==
    rk_order \notin 1..4 => pc # "returned" /\ Rows(stdout) = <<>>

\* the value a field of the header has in the records _state and _aux
FieldValue(n) ==
    IF \E i \in 1..Len(StateFields) : StateFields[i] = n
    THEN sim_state[IndexOf(StateFields, n)]
    ELSE sim_aux[IndexOf(AuxFields, n)]

\* C15: the header is written once, before every data row; with a supported
\* rk_order the program performs max_iterations steps and has written one
\* row for each finished step iter with iter mod modulo_write = 0; a row is
\* written after the state update of its step and holds, at position i, the
\* value of the i-th field of the header.
C15_HeaderThenRowsEveryNthStep ==
    /\ pc = "main" => stdout = <<>>
    /\ pc \in {"loop", "returned", "exited"} =>
          /\ Len(stdout) >= 1
          /\ stdout[1] = [kind |-> "header", values |-> output.writer_fields]
          /\ \A i \in 2..Len(stdout) : stdout[i].kind = "row"
          /\ iter <= max_iterations
    /\ (pc \in {"loop", "returned"} /\ rk_order \in 1..4) =>
          /\ Len(Rows(stdout)) =
                Cardinality({i \in 0..(iter - 1) : i % modulo_write = 0})
          /\ pc = "returned" => iter = max_iterations
          /\ (iter > 0 /\ (iter - 1) % modulo_write = 0) =>
                LET row == stdout[Len(stdout)]
                    header == stdout[1]
                IN /\ row.kind = "row"
                   /\ Len(row.values) = Len(header.values)
                   /\ \A i \in 1..Len(header.values) :
                         row.values[i] = FieldValue(header.values[i])

\* three steps were made, of which the first and the third were reported
C15_Witness ==
    /\ pc = "returned"
    /\ rk_order \in 1..4
    /\ max_iterations = 3
    /\ modulo_write = 2
    /\ Len(stdout) = 3
    /\ stdout[2].values # stdout[3].values

\* the derivative of state variable i at the state a
Slope(a, i) == f(f_coef, a).dqdt[i]

\* s + h * k * r, per state variable
Shifted(s, h, k, r) ==
    [i \in 1..Len(s) |-> RAdd(s[i], RMul(RMul(h[i], k[i]), r))]

\* C16: one iteration with rk_order k in 1..4 calls f k times, with the
\* stage arguments in the order k1..kk, and sets every state variable, with
\* its own step h, to: Euler s + h*k1; RK2 s + h*(k1+k2)/2, k2 = f(s+h*k1);
\* Kutta 3 s + h*(k1+4*k2+k3)/6, k2 = f(s+h*k1/2), k3 = f(s-h*k1+2*h*k2);
\* RK4 s + h*(k1+2*k2+2*k3+k4)/6, k2 = f(s+h*k1/2), k3 = f(s+h*k2/2),
\* k4 = f(s+h*k3).
C16_SchemeFormulas ==
    [][(pc = "loop" /\ iter' = iter + 1) =>
        LET s == sim_state
            h == dt
            n == Len(s)
            k(a) == [i \in 1..n |-> Slope(a, i)]
            k1 == k(s)
            sum(u, v) == [i \in 1..n |-> RAdd(u[i], v[i])]
            times(u, c) == [i \in 1..n |-> RMul(u[i], Rat(c, 1))]
        IN /\ Len(f_calls') = rk_order
           /\ f_calls'[1] = s
           /\ rk_order = 1 => sim_state' = Shifted(s, h, k1, Rat(1, 1))
           /\ rk_order = 2 =>
                LET a2 == Shifted(s, h, k1, Rat(1, 1))
                    k2 == k(a2)
                IN /\ f_calls' = <<s, a2>>
                   /\ sim_state' = Shifted(s, h, sum(k1, k2), Rat(1, 2))
           /\ rk_order = 3 =>
                LET a2 == Shifted(s, h, k1, Rat(1, 2))
                    k2 == k(a2)
                    a3 == Shifted(Shifted(s, h, k1, Rat(-1, 1)), h, k2, Rat(2, 1))
                    k3 == k(a3)
                IN /\ f_calls' = <<s, a2, a3>>
                   /\ sim_state' =
                        Shifted(s, h, sum(sum(k1, times(k2, 4)), k3), Rat(1, 6))
           /\ rk_order = 4 =>
                LET a2 == Shifted(s, h, k1, Rat(1, 2))
                    k2 == k(a2)
                    a3 == Shifted(s, h, k2, Rat(1, 2))
                    k3 == k(a3)
                    a4 == Shifted(s, h, k3, Rat(1, 1))
                    k4 == k(a4)
                IN /\ f_calls' = <<s, a2, a3, a4>>
                   /\ sim_state' =
                        Shifted(s, h, sum(sum(sum(k1, times(k2, 2)), times(k3, 2)), k4),
                                Rat(1, 6))
    ]_vars

\* the third step of Kutta's scheme was made and moved both state variables
C16_Witness ==
    /\ pc = "loop"
    /\ rk_order = 3
    /\ iter = 3
    /\ Len(f_calls) = 3
    /\ f_calls[1] # f_calls[2]
    /\ f_calls[2] # f_calls[3]
    /\ \A i \in 1..Len(sim_state) : sim_state[i] # f_calls[1][i]

(***************************************************************************)
(* Properties of the traditional DDA exporters.                            *)
(***************************************************************************)
AssignmentLines(lines) == SelectSeq(lines, LAMBDA l : l.kind = "assignment")

\* the place of a name in the order of Python's string comparison
Rank(n) == CHOOSE i \in 1..Len(NameOrder) : NameOrder[i] = n

\* the names the document assigns
DocumentNames == {program[i].name : i \in 1..Len(program)}

\* the right-hand side of the last assignment to n in the document
LastAssigned(n) ==
    LET i == CHOOSE j \in 1..Len(program) :
                /\ program[j].name = n
                /\ \A m \in (j + 1)..Len(program) : program[m].name # n
    IN program[i].def

\* C17: to_traditional_dda returns, between at most one prefix line and at
\* most one suffix line, exactly one line 'name = expression' per definition
\* of the state, in increasing order of the names, whatever the order of the
\* document was; the doctest document dt, y0, z, y gives the lines dt, y,
\* y0, z.
C17_OneLinePerDefinitionSorted ==
    pc = "exported" =>
        LET a == AssignmentLines(output)
            first == IF output # <<>> /\ output[1].kind = "text" THEN 1 ELSE 0
        IN /\ Len(a) = Cardinality(DocumentNames)
           /\ {a[i].name : i \in 1..Len(a)} = DocumentNames
           /\ \A i, j \in 1..Len(a) : i < j => Rank(a[i].name) < Rank(a[j].name)
           /\ \A i \in 1..Len(a) :
                 a[i].expr \in {LastAssigned(a[i].name),
                                RemoveConstTails(LastAssigned(a[i].name))}
           /\ Len(output) - Len(a) <= 2
           /\ \A i \in 1..Len(a) : output[first + i] = a[i]
           /\ \A i \in 1..Len(output) :
                 output[i].kind = "text" =>
                    \/ i = 1 /\ output[i].text \in Prefixes \ {""}
                    \/ i = Len(output) /\ output[i].text \in Suffixes \ {""}
           /\ program = DoctestDocument =>
                 a = << [kind |-> "assignment", name |-> "dt", expr |-> Const("0.5")],
                        [kind |-> "assignment", name |-> "y", expr |->
                            Symbol("int", <<Var("y"), Var("dt"), Var("y0")>>)],
                        [kind |-> "assignment", name |-> "y0", expr |-> Const("1")],
                        [kind |-> "assignment", name |-> "z", expr |->
                            Symbol("mult", <<Var("y"), Var("y")>>)] >>

\* the doctest document was exported with prefix and suffix
C17_Witness ==
    /\ pc = "exported"
    /\ program = DoctestDocument
    /\ Len(output) = 6
    /\ output[1].kind = "text"
    /\ output[6].kind = "text"

(***************************************************************************)
(* Properties of PyHyCon.                                                  *)
(***************************************************************************)
\* C18: on a unidirectional HyCon nothing is ever read from fh, no response
\* is checked or mapped, and HyConRequest.read(), and so query, which returns
\* what read returned, always returns None.
C18_UnidirectionalReadsNothingReturnsNone ==
    (pc = "connected" /\ unidirectional) =>
        /\ fh.read = 0
        /\ \A i \in 1..Len(requests) :
              /\ requests[i].checks = 0
              /\ requests[i].response = "n.a."
              /\ requests[i].reply = "n.a."
        /\ returned.call \in {"read", "query"} =>
              returned.value \in {"None"}

\* the same without the returned value
C18_UnidirectionalReadsNothing ==
    (pc = "connected" /\ unidirectional) =>
        /\ fh.read = 0
        /\ \A i \in 1..Len(requests) :
              /\ requests[i].checks = 0
              /\ requests[i].response = "n.a."
              /\ requests[i].reply = "n.a."

\* how often request i has written to fh
Writes(i) == Len(SelectSeq(fh.written, LAMBDA w : w.request = i))

\* C20: every request has written its command to fh at most once, and once
\* exactly if it is executed; a write on an executed request raises
\* ValueError('Shall not execute same command twice.') and writes nothing;
\* executed, once true, stays true.
C20_CommandSentAtMostOnce ==
    [][/\ \A i \in 1..Len(requests') :
             /\ Writes(i)' <= 1
             /\ requests'[i].executed <=> Writes(i)' = 1
       /\ \A i \in 1..Len(requests) :
             /\ requests[i].executed => requests'[i].executed
             /\ requests'[i].command = requests[i].command
             /\ (requests[i].executed /\ returned'.call = "write" /\ returned'.request = i) =>
                   /\ returned'.value = "ValueError: Shall not execute same command twice."
                   /\ fh'.written = fh.written
      ]_vars

\* a write on a request that was executed before has just raised
C20_Witness ==
    /\ pc = "connected"
    /\ returned.call = "write"
    /\ returned.value = "ValueError: Shall not execute same command twice."
    /\ requests[returned.request].executed
    /\ Writes(returned.request) = 1

====
